---- MODULE Spec2Model ----
(***************************************************************************)
(* csv_issue_creator.py: one issue per Paper ID of a CSV file, with the    *)
(* processed identifiers kept in processed_ids.json between runs.          *)
(*                                                                         *)
(* The state is the Issue Store (the repository's issues), the persisted   *)
(* processed_ids file, and the state of the one running process: its       *)
(* position, the CSVIssueCreator object's fields and process_csv's locals. *)
(* In Spec, SpecRun, SpecTwice and SpecConsistent runs do not overlap: a   *)
(* new process starts only when none is running. SpecRace has two          *)
(* processes at the same time, each call of the store a step of its own.   *)
(***************************************************************************)
EXTENDS Integers, Sequences, FiniteSets, TLC

\* ------------------------------------------------------------- bounds
\* rows of a record source
MaxRows == 2
\* issues in the store before the first run
MaxInitIssues == 1

\* ------------------------------------------------------------ strings
\* A string is a sequence of characters; " " stands for any whitespace.
Whitespace == {" "}

SeqsUpTo(S, n) == UNION {[1..k -> S] : k \in 0..n}

\* str.lstrip(), str.rstrip(), str.strip()
RECURSIVE lstrip(_)
lstrip(s) == IF s # <<>> /\ Head(s) \in Whitespace THEN lstrip(Tail(s)) ELSE s

RECURSIVE rstrip(_)
rstrip(s) ==
    IF s # <<>> /\ s[Len(s)] \in Whitespace
    THEN rstrip(SubSeq(s, 1, Len(s) - 1))
    ELSE s

\* (variant: only trailing whitespace is removed)
strip_trailing(s) == rstrip(s)

strip(s) == rstrip(lstrip(s))

\* ------------------------------------------------------- record source
\* A cell of the 'Paper ID' column as pandas.read_csv delivers it: NaN for an
\* empty field, the field's text otherwise (never the empty string).
NaN == [na |-> TRUE, text |-> <<>>]
Text(s) == [na |-> FALSE, text |-> s]

PaperIdCells ==
    {NaN, Text(<<" ">>), Text(<<"a">>), Text(<<" ", "a">>), Text(<<"b">>)}

\* A 'Coder' cell is a text or a number (a column of numbers).
Row(cell, coder) == [id |-> cell, Coder |-> coder]

\* The rows the sources are made of.
Rows == {Row(c, "str") : c \in PaperIdCells \ {Text(<<" ", "a">>)}}

required_columns == {"Paper ID", "Paper Title", "Coder", "Supervisor", "Collection"}

Source(cols, rows) == [columns |-> cols, rows |-> rows]

\* The record sources a run may be given: every required column and up to
\* MaxRows rows; an identifier with surrounding whitespace, alone and beside
\* its trimmed form; a row whose Coder is a number, first and after another
\* row; a header that lacks a column.
Sources ==
    {Source(required_columns, rows) : rows \in SeqsUpTo(Rows, MaxRows)}
    \cup
    {Source(required_columns, <<Row(Text(<<" ", "a">>), "str")>>),
     Source(required_columns,
            <<Row(Text(<<" ", "a">>), "str"), Row(Text(<<"a">>), "str")>>),
     Source(required_columns,
            <<Row(Text(<<"a">>), "str"), Row(Text(<<" ", "a">>), "str")>>),
     Source(required_columns, <<Row(Text(<<"b">>), "num")>>),
     Source(required_columns,
            <<Row(Text(<<"a">>), "str"), Row(Text(<<"b">>), "num")>>),
     Source(required_columns \ {"Collection"}, <<Row(Text(<<"a">>), "str")>>),
     Source(required_columns \ {"Paper ID"}, <<Row(NaN, "str")>>)}

\* No record source (no process runs).
NoSource == [columns |-> required_columns, rows |-> <<>>]

\* The identifiers a source can yield.
Ids == {strip(c.text) : c \in PaperIdCells \ {NaN}}

\* --------------------------------------------------------- issue store
IssueStates == {"open", "closed"}
InitTitles == {<<"a">>, <<"b">>}

Titles(st) == {st[i].title : i \in 1..Len(st)}
CountTitle(st, t) == Cardinality({i \in 1..Len(st) : st[i].title = t})
NoDuplicateTitles(st) ==
    \A i, j \in 1..Len(st) : st[i].title = st[j].title => i = j

InitStores ==
    {st \in SeqsUpTo([title : InitTitles, state : IssueStates], MaxInitIssues) :
        NoDuplicateTitles(st)}

\* ------------------------------------------------- processed_ids.json
\* absent; invalid (json.load or set() raises); a JSON array of strings; a
\* JSON object (set() of a dict is the set of its keys).
FileKinds == {"absent", "invalid", "array", "object"}

AbsentFile == [kind |-> "absent", ids |-> {}]
InvalidFile == [kind |-> "invalid", ids |-> {}]
ArrayFile(S) == [kind |-> "array", ids |-> S]
ObjectFile(S) == [kind |-> "object", ids |-> S]

InitFiles ==
    {AbsentFile, InvalidFile}
    \cup {ArrayFile({<<"a">>}), ArrayFile(InitTitles)}
    \cup {ObjectFile({<<"a">>})}

VARIABLES
    store,              \* the repository's issues, in creation order
    file,               \* processed_ids.json
    pc,                 \* "idle" (no process) | "constructed" | "loop" |
                        \* "exited" (ended, its memory still to be inspected)
    exitCode,           \* -1 while running or when killed, else the exit code
    outcome,            \* how the run ended
    env,                \* GITHUB_TOKEN and GITHUB_REPOSITORY are set, and the
                        \* GitHub client can be initialised
    csv,                \* the record source of the run
    processed_ids,      \* self.processed_ids
    df,                 \* the DataFrame read_csv_file returned
    idx,                \* the row df.iterrows() is at
    new_issues_created, \* process_csv's counter
    skipped_issues,     \* process_csv's counter
    events,             \* what this run did, in order
    store0,             \* the store when the run started
    file0,              \* the file when the run started
    loaded,             \* what load_processed_ids returned
    runNo,              \* 1, or 2 in the second of two runs on one source
    first,              \* how the first of two runs on one source ended
    procs               \* the processes that run at the same time

vars == <<store, file, pc, exitCode, outcome, env, csv, processed_ids, df, idx,
          new_issues_created, skipped_issues, events, store0, file0, loaded,
          runNo, first, procs>>

\* ----------------------------------------------------------- the code

\* One entry of the run's trace. op is "exists" (main's os.path.exists),
\* "load" (load_processed_ids), "client" (Github(), get_repo), "read_csv",
\* "skip" (the 'already processed' branch), "list" (get_issues),
\* "create" (create_issue), "count" (the 'if issue_number' branch) or "save"
\* (save_processed_ids); ok is FALSE when the operation raised.
Ev(op, title, ok) == [op |-> op, title |-> title, ok |-> ok]

\* load_processed_ids: readable is FALSE when open() raises.
\* (variants: the set is never read back; an unreadable file's content is used)
load_processed_ids_never(f, readable) == {}
load_processed_ids_stale(f, readable) == f.ids

load_raises(f, readable) == f.kind # "absent" /\ (~readable \/ f.kind = "invalid")

load_processed_ids(f, readable) ==
    IF f.kind = "absent" THEN {}
    ELSE IF load_raises(f, readable) THEN {}
    ELSE f.ids

\* save_processed_ids: res is "ok", "open" (open() raises: the file is left
\* as it is) or "write" (the dump raises after open() truncated the file).
SaveResults == {"ok", "open", "write"}

\* (variant: nothing is written)
save_processed_ids_nothing(f, ids, res) == f

save_processed_ids(f, ids, res) ==
    CASE res = "ok" -> ArrayFile(ids)
      [] res = "open" -> f
      [] res = "write" -> InvalidFile

\* read_csv_file: the required columns the header lacks.
\* (variant: only 'Paper ID' is looked for)
missing_columns_id_only(src) == {col \in {"Paper ID"} : col \notin src.columns}

missing_columns(src) == {col \in required_columns : col \notin src.columns}

\* read_csv_file: dropna(subset=['Paper ID']), then astype(str).str.strip().
\* (variant: no row is dropped)
dropna_nothing(rows) == rows

dropna(rows) == SelectSeq(rows, LAMBDA r : ~r.id.na)

read_csv_file(src) ==
    LET kept == dropna(src.rows)
    IN  [i \in 1..Len(kept) |->
            [id |-> strip(kept[i].id.text), Coder |-> kept[i].Coder]]

\* create_issue_body: ', '.join raises TypeError on a number.
body_raises(row) == row.Coder = "num"

\* create_github_issue. listOk: get_issues and its iteration succeed;
\* createRes: "ok", "fail" (create_issue raises, nothing created) or "lost"
\* (create_issue raises although the store created the issue).
\* The number 0 stands for None: both are false in 'if issue_number'.
CreateResults == {"ok", "fail", "lost"}

\* (variant: get_issues() without state='all' lists the open issues only)
FirstWithTitle_open(st, title) ==
    IF \E i \in 1..Len(st) : st[i].title = title /\ st[i].state = "open"
    THEN CHOOSE i \in 1..Len(st) : st[i].title = title /\ st[i].state = "open"
    ELSE 0

FirstWithTitle(st, title) ==
    IF title \in Titles(st)
    THEN CHOOSE i \in 1..Len(st) :
            /\ st[i].title = title
            /\ \A j \in 1..(i - 1) : st[j].title # title
    ELSE 0

NewIssue(title) == [title |-> title, state |-> "open"]

\* (variant: the issue is created without looking for an existing one)
create_github_issue_no_scan(st, title, listOk, createRes) ==
    IF createRes = "ok"
    THEN [store |-> Append(st, NewIssue(title)),
          events |-> <<Ev("create", title, TRUE)>>, number |-> Len(st) + 1]
    ELSE [store |-> st, events |-> <<Ev("create", title, FALSE)>>, number |-> 0]

\* (variant: the except branch returns a number instead of None)
create_github_issue_no_none(st, title, listOk, createRes) ==
    IF ~listOk
    THEN [store |-> st, events |-> <<Ev("list", title, FALSE)>>,
          number |-> Len(st) + 1]
    ELSE IF FirstWithTitle(st, title) # 0
    THEN [store |-> st, events |-> <<Ev("list", title, TRUE)>>,
          number |-> FirstWithTitle(st, title)]
    ELSE IF createRes = "ok"
    THEN [store |-> Append(st, NewIssue(title)),
          events |-> <<Ev("list", title, TRUE), Ev("create", title, TRUE)>>,
          number |-> Len(st) + 1]
    ELSE [store |-> st,
          events |-> <<Ev("list", title, TRUE), Ev("create", title, FALSE)>>,
          number |-> Len(st) + 1]

create_github_issue(st, title, listOk, createRes) ==
    IF ~listOk
    THEN [store |-> st, events |-> <<Ev("list", title, FALSE)>>, number |-> 0]
    ELSE IF FirstWithTitle(st, title) # 0
    THEN [store |-> st, events |-> <<Ev("list", title, TRUE)>>,
          number |-> FirstWithTitle(st, title)]
    ELSE CASE createRes = "ok" ->
                [store |-> Append(st, NewIssue(title)),
                 events |-> <<Ev("list", title, TRUE), Ev("create", title, TRUE)>>,
                 number |-> Len(st) + 1]
           [] createRes = "fail" ->
                [store |-> st,
                 events |-> <<Ev("list", title, TRUE), Ev("create", title, FALSE)>>,
                 number |-> 0]
           [] createRes = "lost" ->
                [store |-> Append(st, NewIssue(title)),
                 events |-> <<Ev("list", title, TRUE), Ev("create", title, FALSE)>>,
                 number |-> 0]

\* --------------------------------------------------------------- Init
NoEnv == [token |-> FALSE, repo |-> FALSE, client |-> FALSE]
NoFirst == [csv |-> NoSource, len |-> 0, clean |-> FALSE, ids |-> {}]

\* The processes of two concurrent runs, numbered as they start. procs holds
\* those that have started.
Procs == {1, 2}

Init ==
    /\ store \in InitStores
    /\ file \in InitFiles
    /\ pc = "idle"
    /\ exitCode = -1
    /\ outcome = "none"
    /\ env = NoEnv
    /\ csv = NoSource
    /\ processed_ids = {}
    /\ df = <<>>
    /\ idx = 0
    /\ new_issues_created = 0
    /\ skipped_issues = 0
    /\ events = <<>>
    /\ store0 = store
    /\ file0 = file
    /\ loaded = {}
    /\ runNo = 1
    /\ first = NoFirst
    /\ procs = <<>>

\* What a fresh process starts from.
Fresh(e, src, ids, evs) ==
    /\ env' = e
    /\ csv' = src
    /\ processed_ids' = ids
    /\ loaded' = ids
    /\ df' = <<>>
    /\ idx' = 0
    /\ new_issues_created' = 0
    /\ skipped_issues' = 0
    /\ events' = evs
    /\ store0' = store
    /\ file0' = file

Exit(code, how) ==
    /\ pc' = "exited"
    /\ exitCode' = code
    /\ outcome' = how

\* ------------------------------------------------------------ actions

\* main: the CSV file does not exist.
MainNoFile(e) ==
    /\ pc = "idle"
    /\ Fresh(e, NoSource, {}, <<Ev("exists", <<>>, FALSE)>>)
    /\ Exit(1, "no file")
    /\ UNCHANGED <<store, file, runNo, first, procs>>

\* (variant: __init__ without the two credential checks)
MainConstruct_unchecked(e, src, readable) ==
    /\ pc = "idle"
    /\ Fresh(e, src, load_processed_ids(file, readable),
             <<Ev("exists", <<>>, TRUE),
               Ev("load", <<>>, ~load_raises(file, readable)),
               Ev("client", <<>>, TRUE)>>)
    /\ pc' = "constructed"
    /\ exitCode' = -1
    /\ outcome' = "none"
    /\ UNCHANGED <<store, file, runNo, first, procs>>

\* main: the file exists; CSVIssueCreator.__init__ runs.
MainConstruct(e, src, readable) ==
    /\ pc = "idle"
    /\ LET begin == <<Ev("exists", <<>>, TRUE),
                      Ev("load", <<>>, ~load_raises(file, readable))>>
       IN  IF ~e.token \/ ~e.repo
           THEN /\ Fresh(e, src, load_processed_ids(file, readable), begin)
                /\ Exit(1, "configuration")
           ELSE IF ~e.client
           THEN /\ Fresh(e, src, load_processed_ids(file, readable),
                         Append(begin, Ev("client", <<>>, FALSE)))
                /\ Exit(1, "client")
           ELSE /\ Fresh(e, src, load_processed_ids(file, readable),
                         Append(begin, Ev("client", <<>>, TRUE)))
                /\ pc' = "constructed"
                /\ exitCode' = -1
                /\ outcome' = "none"
    /\ UNCHANGED <<store, file, runNo, first, procs>>

\* process_csv: read_csv_file. parseOk is FALSE when pd.read_csv raises.
ReadCsv(parseOk) ==
    /\ pc = "constructed"
    /\ IF ~parseOk \/ missing_columns(csv) # {}
       THEN /\ Exit(1, IF parseOk THEN "validation" ELSE "parse")
            /\ events' = Append(events, Ev("read_csv", <<>>, FALSE))
            /\ UNCHANGED <<df, idx>>
       ELSE /\ df' = read_csv_file(csv)
            /\ idx' = 1
            /\ pc' = "loop"
            /\ events' = Append(events, Ev("read_csv", <<>>, TRUE))
            /\ UNCHANGED <<exitCode, outcome>>
    /\ UNCHANGED <<store, file, env, csv, processed_ids, new_issues_created,
                   skipped_issues, store0, file0, loaded, runNo, first, procs>>

\* (variant: the loop without its 'already processed' branch)
ProcessRecord_no_skip(listOk, createRes) ==
    /\ pc = "loop"
    /\ idx <= Len(df)
    /\ LET paper_id == df[idx].id
           r == create_github_issue(store, paper_id, listOk, createRes)
       IN  IF body_raises(df[idx])
           THEN /\ Exit(1, "processing")
                /\ UNCHANGED <<store, processed_ids, idx, new_issues_created,
                               skipped_issues, events>>
           ELSE /\ store' = r.store
                /\ IF r.number # 0
                   THEN /\ processed_ids' = processed_ids \cup {paper_id}
                        /\ new_issues_created' = new_issues_created + 1
                        /\ events' = events \o r.events
                                        \o <<Ev("count", paper_id, TRUE)>>
                   ELSE /\ events' = events \o r.events
                        /\ UNCHANGED <<processed_ids, new_issues_created>>
                /\ idx' = idx + 1
                /\ UNCHANGED <<pc, exitCode, outcome, skipped_issues>>
    /\ UNCHANGED <<file, env, csv, df, store0, file0, loaded, runNo, first,
                   procs>>

\* process_csv: one iteration of the loop over df.
ProcessRecord(listOk, createRes) ==
    /\ pc = "loop"
    /\ idx <= Len(df)
    /\ LET paper_id == df[idx].id
           title == paper_id
           r == create_github_issue(store, title, listOk, createRes)
       IN  IF paper_id \in processed_ids
           THEN /\ skipped_issues' = skipped_issues + 1
                /\ events' = Append(events, Ev("skip", paper_id, TRUE))
                /\ idx' = idx + 1
                /\ UNCHANGED <<store, pc, exitCode, outcome, processed_ids,
                               new_issues_created>>
           ELSE IF body_raises(df[idx])
           THEN /\ Exit(1, "processing")
                /\ UNCHANGED <<store, processed_ids, idx, new_issues_created,
                               skipped_issues, events>>
           ELSE /\ store' = r.store
                /\ IF r.number # 0
                   THEN /\ processed_ids' = processed_ids \cup {paper_id}
                        /\ new_issues_created' = new_issues_created + 1
                        /\ events' = events \o r.events
                                        \o <<Ev("count", paper_id, TRUE)>>
                   ELSE /\ events' = events \o r.events
                        /\ UNCHANGED <<processed_ids, new_issues_created>>
                /\ idx' = idx + 1
                /\ UNCHANGED <<pc, exitCode, outcome, skipped_issues>>
    /\ UNCHANGED <<file, env, csv, df, store0, file0, loaded, runNo, first,
                   procs>>

\* (variant: save_processed_ids lets its exception through to main)
Finish_save_raises(res) ==
    /\ pc = "loop"
    /\ idx > Len(df)
    /\ file' = save_processed_ids(file, processed_ids, res)
    /\ events' = Append(events, Ev("save", <<>>, res = "ok"))
    /\ IF res = "ok" THEN Exit(0, "ok") ELSE Exit(1, "processing")
    /\ UNCHANGED <<store, env, csv, processed_ids, df, idx, new_issues_created,
                   skipped_issues, store0, file0, loaded, runNo, first, procs>>

\* process_csv: after the loop, save_processed_ids and return; main prints
\* the count and the process ends with code 0.
Finish(res) ==
    /\ pc = "loop"
    /\ idx > Len(df)
    /\ file' = save_processed_ids(file, processed_ids, res)
    /\ events' = Append(events, Ev("save", <<>>, res = "ok"))
    /\ Exit(0, "ok")
    /\ UNCHANGED <<store, env, csv, processed_ids, df, idx, new_issues_created,
                   skipped_issues, store0, file0, loaded, runNo, first, procs>>

\* The process is killed while it runs.
Crash ==
    /\ pc \in {"constructed", "loop"}
    /\ Exit(-1, "killed")
    /\ UNCHANGED <<store, file, env, csv, processed_ids, df, idx,
                   new_issues_created, skipped_issues, events, store0, file0,
                   loaded, runNo, first, procs>>

\* The ended process is gone, and its memory with it.
Gone ==
    /\ pc = "exited"
    /\ pc' = "idle"
    /\ exitCode' = -1
    /\ outcome' = "none"
    /\ Fresh(NoEnv, NoSource, {}, <<>>)
    /\ UNCHANGED <<store, file, procs>>

Reap == Gone /\ UNCHANGED <<runNo, first>>

\* The environments of a run: all is there, a credential is missing, or the
\* client cannot be initialised.
OkEnv == [token |-> TRUE, repo |-> TRUE, client |-> TRUE]
Envs ==
    {OkEnv, [OkEnv EXCEPT !.token = FALSE], [OkEnv EXCEPT !.repo = FALSE],
     [OkEnv EXCEPT !.client = FALSE]}

\* One run of the program. A run whose construction fails never reads its
\* source: one source stands for all of them there.
Run(srcs) ==
    \/ \E e \in Envs : MainNoFile(e)
    \/ \E e \in Envs, readable \in BOOLEAN :
          \E src \in (IF e = OkEnv THEN srcs ELSE {CHOOSE s \in srcs : TRUE}) :
              MainConstruct(e, src, readable)
    \/ \E parseOk \in BOOLEAN : ReadCsv(parseOk)
    \/ \E listOk \in BOOLEAN, createRes \in CreateResults :
          ProcessRecord(listOk, createRes)
    \/ \E res \in SaveResults : Finish(res)
    \/ Crash

\* Any number of runs, one after the other, each on any source.
Next == Run(Sources) \/ Reap

Spec == Init /\ [][Next]_vars

\* One run, from any initial store and file.
NextRun == Run(Sources)

SpecRun == Init /\ [][NextRun]_vars

\* Two runs in sequence on the same source.
StoreCallsOk(evs) ==
    \A k \in 1..Len(evs) : evs[k].op \in {"list", "create"} => evs[k].ok

Saved(evs) == \E k \in 1..Len(evs) : evs[k].op = "save" /\ evs[k].ok

ReapFirst ==
    /\ runNo = 1
    /\ outcome = "ok"
    /\ Gone
    /\ runNo' = 2
    /\ first' = [csv |-> csv, len |-> Len(store),
                 clean |-> StoreCallsOk(events) /\ Saved(events),
                 ids |-> processed_ids]

NextTwice ==
    \/ runNo = 1 /\ Run(Sources)
    \/ ReapFirst
    \/ runNo = 2 /\ Run({first.csv})

SpecTwice == Init /\ [][NextTwice]_vars

\* Any number of runs, from a file that names only identifiers that are the
\* title of an issue.
InitConsistent == Init /\ file.ids \subseteq Titles(store)

SpecConsistent == InitConsistent /\ [][Next]_vars

\* ------------------------------------------------- two runs at once
\* The sources of the two runs: every column, text Coders, identifiers
\* without whitespace.
RaceSources ==
    {Source(required_columns, rows) :
        rows \in SeqsUpTo({Row(Text(<<"a">>), "str"), Row(Text(<<"b">>), "str")},
                          MaxRows)}

seqVars ==
    <<pc, exitCode, outcome, env, csv, processed_ids, df, idx,
      new_issues_created, skipped_issues, events, store0, file0, loaded, runNo,
      first>>

\* main up to the loop of process_csv, with the credentials set and the
\* client, the read and the open() of an existing processed_ids file
\* succeeding. Both runs are given the same source. Beside the object's
\* fields and process_csv's locals a process keeps what its listing saw when
\* it found no issue of the title (seen: the number of issues, until
\* create_issue returns) and, for every issue the store created on its call,
\* the issue's place and what the listing had seen (made).
RaceStart(p, src) ==
    /\ p \in Procs
    /\ p = Len(procs) + 1
    /\ \A q \in DOMAIN procs : procs[q].csv = src
    /\ procs' = Append(procs,
                       [pc |-> "loop",
                        csv |-> src,
                        processed_ids |-> load_processed_ids(file, TRUE),
                        df |-> read_csv_file(src),
                        idx |-> 1,
                        new_issues_created |-> 0,
                        skipped_issues |-> 0,
                        seen |-> 0,
                        made |-> {}])
    /\ UNCHANGED <<store, file>>
    /\ UNCHANGED seqVars

\* process_csv: the 'already processed' branch.
RaceSkip(p) ==
    LET me == procs[p] IN
    /\ p \in DOMAIN procs
    /\ me.pc = "loop"
    /\ me.idx <= Len(me.df)
    /\ me.df[me.idx].id \in me.processed_ids
    /\ procs' = [procs EXCEPT ![p].skipped_issues = @ + 1, ![p].idx = @ + 1]
    /\ UNCHANGED <<store, file>>
    /\ UNCHANGED seqVars

\* create_github_issue: get_issues and the scan for the title. The call
\* raises (None is returned), finds the title (its number is returned and the
\* identifier is marked as processed), or finds nothing.
RaceList(p, listOk) ==
    LET me == procs[p]
        paper_id == me.df[me.idx].id
    IN
    /\ p \in DOMAIN procs
    /\ me.pc = "loop"
    /\ me.idx <= Len(me.df)
    /\ paper_id \notin me.processed_ids
    /\ ~body_raises(me.df[me.idx])
    /\ procs' =
          IF ~listOk
          THEN [procs EXCEPT ![p].idx = @ + 1]
          ELSE IF FirstWithTitle(store, paper_id) # 0
          THEN [procs EXCEPT ![p].processed_ids = @ \cup {paper_id},
                             ![p].new_issues_created = @ + 1,
                             ![p].idx = @ + 1]
          ELSE [procs EXCEPT ![p].seen = Len(store), ![p].pc = "listed"]
    /\ UNCHANGED <<store, file>>
    /\ UNCHANGED seqVars

\* create_github_issue: create_issue, after a listing without the title.
RaceCreate(p, createRes) ==
    LET me == procs[p]
        paper_id == me.df[me.idx].id
        mine == [at |-> Len(store) + 1, saw |-> me.seen]
    IN
    /\ p \in DOMAIN procs
    /\ me.pc = "listed"
    /\ CASE createRes = "ok" ->
              /\ store' = Append(store, NewIssue(paper_id))
              /\ procs' = [procs EXCEPT ![p].pc = "loop",
                                        ![p].seen = 0,
                                        ![p].made = @ \cup {mine},
                                        ![p].processed_ids = @ \cup {paper_id},
                                        ![p].new_issues_created = @ + 1,
                                        ![p].idx = @ + 1]
         [] createRes = "fail" ->
              /\ store' = store
              /\ procs' = [procs EXCEPT ![p].pc = "loop", ![p].seen = 0,
                                        ![p].idx = @ + 1]
         [] createRes = "lost" ->
              /\ store' = Append(store, NewIssue(paper_id))
              /\ procs' = [procs EXCEPT ![p].pc = "loop",
                                        ![p].seen = 0,
                                        ![p].made = @ \cup {mine},
                                        ![p].idx = @ + 1]
    /\ UNCHANGED file
    /\ UNCHANGED seqVars

\* process_csv: save_processed_ids and return.
RaceFinish(p, res) ==
    LET me == procs[p] IN
    /\ p \in DOMAIN procs
    /\ me.pc = "loop"
    /\ me.idx > Len(me.df)
    /\ file' = save_processed_ids(file, me.processed_ids, res)
    /\ procs' = [procs EXCEPT ![p].pc = "exited"]
    /\ UNCHANGED store
    /\ UNCHANGED seqVars

NextRace ==
    \/ \E p \in Procs, src \in RaceSources : RaceStart(p, src)
    \/ \E p \in Procs : RaceSkip(p)
    \/ \E p \in Procs, listOk \in BOOLEAN : RaceList(p, listOk)
    \/ \E p \in Procs, createRes \in CreateResults : RaceCreate(p, createRes)
    \/ \E p \in Procs, res \in SaveResults : RaceFinish(p, res)

SpecRace == Init /\ [][NextRace]_vars

TypeOK ==
    /\ pc \in {"idle", "constructed", "loop", "exited"}
    /\ exitCode \in {-1, 0, 1}
    /\ processed_ids \subseteq Ids
    /\ file.kind \in FileKinds
    /\ runNo \in {1, 2}

\* ====================================================== the properties

Range(f) == {f[k] : k \in DOMAIN f}

\* The run ended by returning from process_csv.
Completed == pc = "exited" /\ outcome = "ok"

\* The identifiers of a source's records: the 'Paper ID' cells that are not
\* missing, trimmed.
RecordIds(src) ==
    {strip(src.rows[i].id.text) : i \in {j \in 1..Len(src.rows) : ~src.rows[j].id.na}}

NumRecords(src, id) ==
    Cardinality({i \in 1..Len(src.rows) :
                    ~src.rows[i].id.na /\ strip(src.rows[i].id.text) = id})

NumOp(evs, op) == Cardinality({k \in 1..Len(evs) : evs[k].op = op})
NumOpOk(evs, op) == Cardinality({k \in 1..Len(evs) : evs[k].op = op /\ evs[k].ok})

\* The operations of the trace that are about one record.
RecordOps == {"skip", "list", "create", "count"}

Did(op) == \E k \in 1..Len(events) : events[k].op = op
DidFor(op, id) == \E k \in 1..Len(events) : events[k].op = op /\ events[k].title = id

\* ------------------------------------------------------------------ C1
\* C1: starting from a store in which no two issues share a title, after any
\* sequence of non-overlapping runs, with any listing, creation, load and save
\* failures, the store never holds two issues with the same title.
C1_AtMostOneIssuePerIdentifier == NoDuplicateTitles(store)

\* An earlier run created an issue and its identifier was not loaded: this
\* run looks every issue of the store up again and creates nothing.
C1_Witness ==
    /\ Completed
    /\ Len(store0) > MaxInitIssues
    /\ loaded = {}
    /\ \A i \in 1..Len(store0) : Ev("list", store0[i].title, TRUE) \in Range(events)
    /\ store = store0

\* ------------------------------------------------------------------ C2
\* C2: after a run whose store calls and final save succeed, every record
\* with a non-blank identifier that is unique in the source, was not in the
\* loaded ProcessedSet and was no issue's title has exactly one issue, and
\* its identifier is in the persisted ProcessedSet.
C2_Eligible(id) ==
    /\ id # <<>>
    /\ NumRecords(csv, id) = 1
    /\ id \notin loaded
    /\ id \notin Titles(store0)

C2_NewRecordGetsOneIssue ==
    (Completed /\ StoreCallsOk(events) /\ Saved(events)) =>
        \A id \in Ids :
            C2_Eligible(id) =>
                /\ CountTitle(store, id) = 1
                /\ file.kind = "array"
                /\ id \in file.ids

\* The scenario of two new rows: two issues, both identifiers persisted.
C2_Witness ==
    /\ Completed /\ StoreCallsOk(events) /\ Saved(events)
    /\ store0 = <<>>
    /\ loaded = {}
    /\ C2_Eligible(<<"a">>) /\ C2_Eligible(<<"b">>)
    /\ new_issues_created = 2
    /\ file = ArrayFile({<<"a">>, <<"b">>})

\* ------------------------------------------------------------------ C3
\* The second of two runs on one source has loaded the ProcessedSet.
SecondRun == runNo = 2 /\ pc # "idle"
LoadOk == \E k \in 1..Len(events) : events[k].op = "load" /\ events[k].ok

\* C3 as stated: whatever happened in the two runs, the second leaves the
\* number of issues as the first left it, creates no issue for an identifier
\* the first run left in the ProcessedSet and does not count it.
C3_Original ==
    (SecondRun /\ Completed) =>
        /\ Len(store) = first.len
        /\ \A id \in first.ids :
              /\ Ev("create", id, TRUE) \notin Range(events)
              /\ ~DidFor("count", id)

\* C3 (amended): when the first run's store calls and save succeeded and the
\* second run loads the ProcessedSet, the second run leaves the number of
\* issues as it was, makes no creation call, and its count stays 0.
C3_SecondRunCreatesNothing ==
    (SecondRun /\ first.clean /\ LoadOk) =>
        /\ Len(store) = first.len
        /\ ~Did("create")
        /\ new_issues_created = 0
        /\ \A id \in first.ids : ~DidFor("count", id)

\* The scenario of the re-run: two identifiers persisted, both skipped.
C3_Witness ==
    /\ SecondRun /\ Completed /\ first.clean /\ LoadOk
    /\ first.ids = {<<"a">>, <<"b">>}
    /\ Len(df) = 2
    /\ skipped_issues = 2
    /\ new_issues_created = 0
    /\ Len(store) = first.len

\* ------------------------------------------------------------------ C4
\* C4: the count process_csv returns is the number of successful
\* create_issue calls of the run.
C4_CountIsIssuesCreated ==
    Completed => new_issues_created = NumOpOk(events, "create")

\* ------------------------------------------------------------------ C5
\* C5 as stated: for every record whose identifier is the title of an issue
\* of the store, the run makes no creation call, the number of issues of that
\* title is unchanged, and the identifier is in the ProcessedSet at the end.
C5_Original ==
    Completed =>
        \A id \in RecordIds(csv) \cap Titles(store0) :
            /\ ~DidFor("create", id)
            /\ CountTitle(store, id) = CountTitle(store0, id)
            /\ id \in processed_ids

\* C5 (amended): ... and the identifier is in the ProcessedSet at the end
\* unless every listing call the run made for it failed.
C5_ExistingIssueNotDuplicated ==
    /\ \A id \in RecordIds(csv) \cap Titles(store0) :
          /\ ~DidFor("create", id)
          /\ CountTitle(store, id) = CountTitle(store0, id)
    /\ Completed =>
          \A id \in RecordIds(csv) \cap Titles(store0) :
              \/ id \in processed_ids
              \/ /\ DidFor("list", id)
                 /\ Ev("list", id, TRUE) \notin Range(events)

\* A closed issue, not in the loaded set, is found by the listing.
C5_Witness ==
    /\ Completed
    /\ \E i \in 1..Len(store0) :
          /\ store0[i].state = "closed"
          /\ store0[i].title \in RecordIds(csv)
          /\ store0[i].title \notin loaded
          /\ Ev("list", store0[i].title, TRUE) \in Range(events)
          /\ store0[i].title \in processed_ids
          /\ CountTitle(store, store0[i].title) = 1

\* ------------------------------------------------------------------ C6
\* What a step appended to the trace.
NewEvents == SubSeq(events', Len(events) + 1, Len(events'))

StoreCallFailed ==
    /\ pc = "loop"
    /\ \E k \in 1..Len(NewEvents) :
          NewEvents[k].op \in {"list", "create"} /\ ~NewEvents[k].ok

\* C6: when the listing or the creation for a record fails, the identifier
\* is not added to the ProcessedSet (a later record of it is not skipped), the
\* loop goes on with the next record and the run does not abort.
C6_FailureLeavesIdOut ==
    [][StoreCallFailed =>
          /\ processed_ids' = processed_ids
          /\ df[idx].id \notin processed_ids'
          /\ new_issues_created' = new_issues_created
          /\ idx' = idx + 1
          /\ pc' = "loop"
          /\ exitCode' = -1]_vars

\* The first record's store call failed, and the second record was looked up.
C6_Witness ==
    /\ Completed
    /\ Len(df) = 2
    /\ \E k \in 1..Len(events) :
          /\ events[k].op \in {"list", "create"} /\ ~events[k].ok
          /\ events[k].title = df[1].id
          /\ events[k].title \notin processed_ids
          /\ \E j \in (k + 1)..Len(events) :
                events[j].op = "list" /\ events[j].title = df[2].id
                    /\ df[2].id # df[1].id

\* ------------------------------------------------------------------ C7
\* The file cannot be used: absent, its content makes json.load or set()
\* raise, or open() raises.
BadFile == file0.kind \in {"absent", "invalid"} \/ (Did("load") /\ ~LoadOk)

\* C7 as stated: then the run starts with an empty ProcessedSet and every
\* record is Unseen and goes through the store lookup.
C7_Original ==
    (Completed /\ BadFile) =>
        /\ loaded = {}
        /\ skipped_issues = 0
        /\ NumOp(events, "list") = Len(df)

\* C7 (amended): then construction does not fail on that account, the run
\* starts with an empty ProcessedSet, and the first record of every identifier
\* is Unseen and goes through the store lookup.
C7_TolerantLoad ==
    (Did("load") /\ BadFile) =>
        /\ loaded = {}
        /\ outcome \in {"configuration", "client"} => env # OkEnv
        /\ Completed =>
              \A id \in RecordIds(csv) :
                  \E k \in 1..Len(events) :
                      /\ events[k] \in {Ev("list", id, TRUE), Ev("list", id, FALSE)}
                      /\ \A j \in 1..(k - 1) :
                            events[j].op \in RecordOps => events[j].title # id

\* An unusable file, and a source with the same identifier twice.
C7_Witness ==
    /\ Completed
    /\ file0 = InvalidFile
    /\ loaded = {}
    /\ Len(df) = 2
    /\ skipped_issues = 1
    /\ NumOp(events, "list") = 1

\* ------------------------------------------------------------------ C8
\* C8: for a record with a blank or missing identifier no listing or creation
\* call is made, it never enters the ProcessedSet and it is not counted.
C8_BlankExcluded ==
    /\ \A k \in 1..Len(events) :
          events[k].op \in {"list", "create", "count"} => events[k].title # <<>>
    /\ <<>> \in processed_ids => <<>> \in loaded

\* ------------------------------------------------------------------ C9
CredentialMissing == pc # "idle" /\ (~env.token \/ ~env.repo)

\* C9 as stated: with a credential missing the process exits with code 1
\* before any I/O against the record source or the store, and the file is
\* not written.
C9_Original ==
    (CredentialMissing /\ pc = "exited") =>
        /\ exitCode = 1
        /\ \A k \in 1..Len(events) : events[k].op = "load"
        /\ file = file0

\* C9 (amended): with a credential missing the process exits with code 1
\* after main checked that the source exists and before the source is read
\* or the store is called, and the file is not written.
C9_ConfigurationError ==
    CredentialMissing =>
        /\ pc = "exited"
        /\ exitCode = 1
        /\ \A k \in 1..Len(events) : events[k].op \in {"exists", "load"}
        /\ file = file0
        /\ store = store0

\* The source exists, the token is missing.
C9_Witness ==
    /\ pc = "exited"
    /\ ~env.token
    /\ outcome = "configuration"
    /\ Ev("exists", <<>>, TRUE) \in Range(events)
    /\ Did("load")

\* ----------------------------------------------------------------- C10
\* C10: when the source lacks a required column the run aborts: no listing
\* or creation call, nothing added to the ProcessedSet, the file unchanged,
\* exit code 1.
C10_ValidationError ==
    (required_columns \ csv.columns # {} /\ Did("read_csv")) =>
        /\ pc = "exited"
        /\ exitCode = 1
        /\ ~Did("list") /\ ~Did("create") /\ ~Did("save")
        /\ processed_ids = loaded
        /\ file = file0
        /\ store = store0

\* A source without its 'Collection' column, and a loaded ProcessedSet.
C10_Witness ==
    /\ outcome = "validation"
    /\ "Collection" \notin csv.columns
    /\ "Paper ID" \in csv.columns
    /\ loaded # {}

\* ----------------------------------------------------------------- C11
\* The process ended by itself (it was not killed).
Ended == pc = "exited" /\ outcome # "killed"

\* create_issue_body raised for the record the loop is at.
BodyRaised ==
    /\ Ev("read_csv", <<>>, TRUE) \in Range(events)
    /\ ~Did("save")
    /\ idx \in 1..Len(df)
    /\ df[idx].id \notin processed_ids
    /\ df[idx].Coder = "num"

\* A fatal error: the source file is missing, a credential is missing, the
\* client cannot be initialised, or an exception escapes process_csv.
FatalError ==
    \/ Ev("exists", <<>>, FALSE) \in Range(events)
    \/ ~env.token
    \/ ~env.repo
    \/ Ev("client", <<>>, FALSE) \in Range(events)
    \/ Ev("read_csv", <<>>, FALSE) \in Range(events)
    \/ BodyRaised

\* C11: the process exits with code 1 exactly when a fatal error occurred,
\* and with code 0 otherwise, after process_csv returned its count; failed
\* listings, failed creations and a failed save are not fatal.
C11_ExitCode ==
    Ended =>
        /\ exitCode \in {0, 1}
        /\ exitCode = 1 <=> FatalError
        /\ exitCode = 0 =>
              /\ Did("save")
              /\ idx = Len(df) + 1

\* A failed creation and a failed save, and the exit code is 0.
C11_Witness ==
    /\ Ended
    /\ exitCode = 0
    /\ \E k \in 1..Len(events) : events[k].op = "create" /\ ~events[k].ok
    /\ Ev("save", <<>>, FALSE) \in Range(events)
    /\ new_issues_created = 1

\* ----------------------------------------------------------------- C13
\* The loop is at a record whose identifier is in the ProcessedSet.
AtSeenRecord == pc = "loop" /\ idx <= Len(df) /\ df[idx].id \in processed_ids

\* C13: for a record whose identifier is in the ProcessedSet when the loop
\* reaches it, the step makes neither a listing nor a creation call and
\* leaves the store and the ProcessedSet as they are; unless the process is
\* killed there, the record is counted as skipped and the loop moves on.
C13_SeenIsSkipped ==
    [][AtSeenRecord =>
          /\ store' = store
          /\ processed_ids' = processed_ids
          /\ \A k \in 1..Len(NewEvents) :
                NewEvents[k].op \notin {"list", "create", "count"}
          /\ new_issues_created' = new_issues_created
          /\ outcome' # "killed" =>
                /\ NewEvents = <<Ev("skip", df[idx].id, TRUE)>>
                /\ skipped_issues' = skipped_issues + 1
                /\ idx' = idx + 1]_vars

\* The second row bears the identifier the first row's creation added: it
\* is skipped, and the store holds the one issue the first row created.
C13_Witness ==
    /\ Completed
    /\ Len(df) = 2
    /\ df[1].id = df[2].id
    /\ df[1].id \notin loaded
    /\ Ev("create", df[1].id, TRUE) \in Range(events)
    /\ events[Len(events) - 1] = Ev("skip", df[2].id, TRUE)
    /\ NumOp(events, "list") = 1
    /\ Len(store) = Len(store0) + 1
    /\ skipped_issues = 1

\* ----------------------------------------------------------------- C14
\* read_csv_file returned the records.
ReadOk == Ev("read_csv", <<>>, TRUE) \in Range(events)

\* C14: a run that read its source writes the ProcessedSet exactly once,
\* after its last record and whatever failed for single records; a write that
\* succeeds leaves the file holding the whole in-memory set, the loaded
\* identifiers included; nothing is written before the last record is
\* processed.
C14_PersistedOnceAtEnd ==
    /\ pc \in {"constructed", "loop"} => ~Did("save") /\ file = file0
    /\ (Ended /\ ReadOk) =>
          /\ NumOp(events, "save") = 1
          /\ events[Len(events)].op = "save"
          /\ idx = Len(df) + 1
          /\ Saved(events) =>
                /\ file = ArrayFile(processed_ids)
                /\ loaded \subseteq processed_ids

\* ----------------------------------------------------------------- C15
\* C15: when every identifier of the persisted ProcessedSet is the title of
\* an issue before the first run (issues are never deleted), then in every
\* state of every sequence of runs every identifier of the in-memory
\* ProcessedSet and of the persisted one is the title of at least one issue.
C15_ProcessedHaveIssues ==
    /\ \A id \in processed_ids : CountTitle(store, id) >= 1
    /\ \A id \in file.ids : CountTitle(store, id) >= 1

\* A later run: one identifier was loaded, the other is found in the store
\* (an earlier run created its issue and could not save), both are persisted.
C15_Witness ==
    /\ Completed
    /\ Len(store0) > MaxInitIssues
    /\ Cardinality(loaded) = 1
    /\ Cardinality(processed_ids) = 2
    /\ ~Did("create")
    /\ file = ArrayFile(processed_ids)

\* ----------------------------------------------------------------- C16
\* A step of a running process changes self.processed_ids only by adding the
\* identifier of the record the loop is at, in the step in which its issue
\* was found by the listing or created.
AddsOnly ==
    pc # "idle" =>
        \/ processed_ids' = processed_ids
        \/ /\ pc = "loop" /\ idx <= Len(df)
           /\ idx' = idx + 1
           /\ processed_ids' = processed_ids \cup {df[idx].id}
           /\ \/ /\ NewEvents = <<Ev("list", df[idx].id, TRUE),
                                   Ev("count", df[idx].id, TRUE)>>
                 /\ df[idx].id \in Titles(store)
                 /\ store' = store
              \/ /\ NewEvents = <<Ev("list", df[idx].id, TRUE),
                                   Ev("create", df[idx].id, TRUE),
                                   Ev("count", df[idx].id, TRUE)>>
                 /\ store' = Append(store, [title |-> df[idx].id, state |-> "open"])

\* The step in which process_csv saves and returns.
SaveStep == pc = "loop" /\ pc' = "exited" /\ outcome' = "ok"

\* C16 as stated: ... and when the load succeeded the set persisted at the
\* end of the run is a superset of the set persisted before the run.
C16_Original ==
    [][/\ AddsOnly
       /\ (SaveStep /\ LoadOk) => file0.ids \subseteq file'.ids]_vars

\* C16 (amended): ... and when the load and the save succeeded the set
\* persisted at the end of the run is the in-memory set, a superset of the set
\* persisted before the run; a save that fails leaves the file as it was or
\* without a set.
C16_AddsOnly ==
    [][/\ AddsOnly
       /\ SaveStep =>
             IF Ev("save", <<>>, TRUE) \in Range(NewEvents)
             THEN /\ file' = [kind |-> "array", ids |-> processed_ids]
                  /\ LoadOk => file0.ids \subseteq file'.ids
             ELSE \/ file' = file
                  \/ file'.kind = "invalid" /\ file'.ids = {}]_vars

\* A loaded identifier is kept and a new one added and persisted.
C16_Witness ==
    /\ Completed /\ LoadOk /\ Saved(events)
    /\ file0.kind = "array"
    /\ loaded = file0.ids
    /\ loaded # {}
    /\ Cardinality(processed_ids) = Cardinality(loaded) + 1
    /\ loaded \subseteq processed_ids
    /\ file.ids = processed_ids

\* ----------------------------------------------------------------- C18
\* A text without its surrounding whitespace.
Trim(s) == lstrip(rstrip(s))

\* The identifiers of the source's rows, trimmed.
TrimmedIds ==
    {Trim(csv.rows[i].id.text) :
        i \in {j \in 1..Len(csv.rows) : ~csv.rows[j].id.na}}

\* C18: the records carry their identifiers trimmed, so rows whose identifiers
\* are equal after trimming bear one identifier; once a row of an identifier
\* was created or found existing, every later row of it in the run is
\* skipped; a run makes at most one successful create_issue call per
\* identifier.
C18_OneCreatePerIdentifier ==
    /\ ReadOk => {df[i].id : i \in 1..Len(df)} = TrimmedIds
    /\ \A id \in TrimmedIds :
          Cardinality({k \in 1..Len(events) :
                          /\ events[k].op = "create" /\ events[k].ok
                          /\ Trim(events[k].title) = id}) <= 1
    /\ \A k \in 1..Len(events) :
          events[k].op = "count" =>
              \A j \in (k + 1)..Len(events) :
                  (/\ events[j].op \in RecordOps
                   /\ Trim(events[j].title) = Trim(events[k].title))
                      => events[j].op = "skip"

\* Two rows, ' a' and 'a' in either order: one identifier, one creation,
\* the second row skipped.
C18_Witness ==
    /\ Completed
    /\ Len(csv.rows) = 2
    /\ csv.rows[1].id.text # csv.rows[2].id.text
    /\ TrimmedIds = {<<"a">>}
    /\ NumOpOk(events, "create") = 1
    /\ skipped_issues = 1
    /\ Len(store) = Len(store0) + 1

\* ----------------------------------------------------------------- C19
\* The records for which create_github_issue returned None: those that were
\* listed and not counted.
FailedRecords == NumOp(events, "list") - NumOp(events, "count")

\* The rows of the source whose 'Paper ID' is not missing.
NonMissing == Cardinality({j \in 1..Len(csv.rows) : ~csv.rows[j].id.na})

\* C19: in a run that read its source the created count is, at every record
\* and so when it is returned, the number of identifiers added to the
\* ProcessedSet since the load, and created + skipped + failed is the number of
\* records dealt with: when process_csv returns, the number of records whose
\* identifier is not missing.
C19_CounterAccounting ==
    ReadOk =>
        /\ loaded \subseteq processed_ids
        /\ new_issues_created = Cardinality(processed_ids) - Cardinality(loaded)
        /\ new_issues_created + skipped_issues + FailedRecords = idx - 1
        /\ Completed => idx - 1 = NonMissing

\* A row without identifier and a record that is created, after a loaded set.
C19_Witness ==
    /\ Completed
    /\ Len(csv.rows) = 2
    /\ NonMissing = 1
    /\ loaded # {}
    /\ new_issues_created = 1
    /\ skipped_issues = 0
    /\ Cardinality(processed_ids) = Cardinality(loaded) + 1

\* ----------------------------------------------------------------- C17
\* No store call and no save of the run failed.
NothingFailed == StoreCallsOk(events) /\ Ev("save", <<>>, FALSE) \notin Range(events)

\* C17: in any sequence of runs no duplicate is created; a run that returns
\* looks up in the store every identifier of its source that it did not load
\* (those whose creation failed or whose addition was lost before); and a run
\* that read its source, was not killed and in which no store call and no
\* save failed (as one of the repeated runs eventually is) leaves every
\* non-blank identifier of the source with exactly one issue and in the
\* persisted ProcessedSet.
C17_RunsHeal ==
    /\ NoDuplicateTitles(store)
    /\ Completed =>
          \A id \in RecordIds(csv) \ loaded : DidFor("list", id)
    /\ (Ended /\ ReadOk /\ NothingFailed) =>
          \A id \in RecordIds(csv) \ {<<>>} :
              /\ CountTitle(store, id) = 1
              /\ file.kind = "array"
              /\ id \in file.ids

\* ----------------------------------------------------------------- C12
\* Two issues of one title.
Duplicates ==
    {pr \in (1..Len(store)) \X (1..Len(store)) :
        pr[1] < pr[2] /\ store[pr[1]].title = store[pr[2]].title}

\* C12: two runs at the same time can leave two issues of one title, and in
\* one way only: the two issues were created on the calls of the two runs,
\* each after a listing of its own that came before the other run's creation.
C12_DuplicateOnlyByRace ==
    \A pr \in Duplicates :
        \E p \in DOMAIN procs : \E q \in DOMAIN procs \ {p} :
            \E m \in procs[p].made, n \in procs[q].made :
                /\ m.at = pr[1]
                /\ n.at = pr[2]
                /\ m.saw < pr[1]
                /\ n.saw < pr[1]

\* Both runs listed an empty store, both created 'a', both count 1.
C12_Witness ==
    /\ DOMAIN procs = {1, 2}
    /\ \A p \in DOMAIN procs :
          /\ procs[p].pc = "exited"
          /\ procs[p].new_issues_created = 1
          /\ procs[p].made # {}
          /\ \A m \in procs[p].made : m.saw = 0
    /\ Len(store) = 2
    /\ store[1].title = store[2].title
====
